---------------------------- MODULE Spec2Model ----------------------------
(***************************************************************************)
(* Model of src/live_vlm_webui/webhook_config.py: the loader that reads    *)
(* the six LIVE_VLM_WEBHOOK_* environment variables into a WebhookConfig.  *)
(*                                                                         *)
(* A Python str is a sequence of one-character strings, so that strip(),   *)
(* lower(), float() and int() are computed character by character.         *)
(* A float is the decimal it was parsed from, [kind, m, e] standing for    *)
(* m * 10^e, or an infinity (m is its sign), or not-a-number.              *)
(* One call of load_webhook_config() runs as a sequence of steps, one per  *)
(* statement group of the function; several threads may run it at once     *)
(* over the same process environment and the same logger.                  *)
(***************************************************************************)
EXTENDS Integers, Sequences, FiniteSets, TLC

\* Spaces that may surround a generated environment value, on each side.
MaxPad == 1

\* Threads that may call load_webhook_config() at the same time.
NumThreads == 2

Threads == 1..NumThreads

VARIABLES
    env,      \* os.environ: a function from the names that are set to their text
    pc,       \* per thread: the statement group it executes next
    frame,    \* per thread: the local variables bound so far
    result,   \* the WebhookConfig returned, for the threads that have returned
    log       \* the records the logger has emitted, in order

vars == <<env, pc, frame, result, log>>

---------------------------------------------------------------------------
\* str methods

WHITESPACE == {" ", "\t", "\n"}

UPPERCASE ==
    << "A", "B", "C", "D", "E", "F", "G", "H", "I", "J", "K", "L", "M",
       "N", "O", "P", "Q", "R", "S", "T", "U", "V", "W", "X", "Y", "Z" >>

LOWERCASE ==
    << "a", "b", "c", "d", "e", "f", "g", "h", "i", "j", "k", "l", "m",
       "n", "o", "p", "q", "r", "s", "t", "u", "v", "w", "x", "y", "z" >>

RECURSIVE LStrip(_)
LStrip(s) ==
    IF s # <<>> /\ Head(s) \in WHITESPACE THEN LStrip(Tail(s)) ELSE s

RECURSIVE RStrip(_)
RStrip(s) ==
    IF s # <<>> /\ s[Len(s)] \in WHITESPACE
    THEN RStrip(SubSeq(s, 1, Len(s) - 1))
    ELSE s

\* Mutant: strips leading whitespace only.
StripLeftOnly(s) == LStrip(s)

\* str.strip()
Strip(s) == RStrip(LStrip(s))

LowerChar(c) ==
    IF \E i \in 1..Len(UPPERCASE) : UPPERCASE[i] = c
    THEN LOWERCASE[CHOOSE i \in 1..Len(UPPERCASE) : UPPERCASE[i] = c]
    ELSE c

\* str.lower()
Lower(s) == [i \in 1..Len(s) |-> LowerChar(s[i])]

\* Position of the first character of s that is in cs, 0 when there is none.
Find(s, cs) ==
    IF \E i \in 1..Len(s) : s[i] \in cs
    THEN CHOOSE i \in 1..Len(s) : s[i] \in cs /\ \A j \in 1..(i - 1) : s[j] \notin cs
    ELSE 0

---------------------------------------------------------------------------
\* Numeric literals, as int() and float() read them

IsDigit(c) == c \in {"0", "1", "2", "3", "4", "5", "6", "7", "8", "9"}

DigitValue(c) ==
    CASE c = "0" -> 0 [] c = "1" -> 1 [] c = "2" -> 2 [] c = "3" -> 3
      [] c = "4" -> 4 [] c = "5" -> 5 [] c = "6" -> 6 [] c = "7" -> 7
      [] c = "8" -> 8 [] c = "9" -> 9

\* Digits, with single underscores allowed between two digits.
IsDigitRun(s) ==
    /\ Len(s) > 0
    /\ \A i \in 1..Len(s) :
         \/ IsDigit(s[i])
         \/ /\ s[i] = "_"
            /\ 1 < i
            /\ i < Len(s)
            /\ IsDigit(s[i - 1])
            /\ IsDigit(s[i + 1])

RECURSIVE DigitRunValue(_, _)
DigitRunValue(s, acc) ==
    IF s = <<>> THEN acc
    ELSE IF Head(s) = "_" THEN DigitRunValue(Tail(s), acc)
    ELSE DigitRunValue(Tail(s), acc * 10 + DigitValue(Head(s)))

CountDigits(s) == Cardinality({i \in 1..Len(s) : IsDigit(s[i])})

\* An optional sign followed by a digit run: [ok, value].
SignedInteger(t) ==
    LET signed == t # <<>> /\ Head(t) \in {"+", "-"}
        body   == IF signed THEN Tail(t) ELSE t
        sign   == IF signed /\ Head(t) = "-" THEN -1 ELSE 1
    IN  IF IsDigitRun(body)
        THEN [ok |-> TRUE, value |-> sign * DigitRunValue(body, 0)]
        ELSE [ok |-> FALSE, value |-> 0]

\* What a conversion does: returns a value, or raises.
Returned(v) == [exc |-> "none", value |-> v]
Raised(e)   == [exc |-> e, value |-> 0]

\* int(str): surrounding whitespace is ignored; anything but a signed
\* digit run raises ValueError.
ParseInt(raw) ==
    LET r == SignedInteger(Strip(raw))
    IN  IF r.ok THEN Returned(r.value) ELSE Raised("ValueError")

\* float values
Finite(m, e) == [kind |-> "finite", m |-> m, e |-> e]
Infinity(sign) == [kind |-> "inf", m |-> sign, e |-> 0]
NaN == [kind |-> "nan", m |-> 0, e |-> 0]

RECURSIVE NumDigits(_)
NumDigits(n) == IF n < 10 THEN 1 ELSE 1 + NumDigits(n \div 10)

RECURSIVE Normalize(_, _)
Normalize(m, e) ==
    IF m = 0 THEN <<0, 0>>
    ELSE IF m % 10 = 0 THEN Normalize(m \div 10, e + 1)
    ELSE <<m, e>>

\* The double nearest to sign * m * 10^e. A magnitude of 10^309 or more
\* overflows to an infinity and one below 10^-324 underflows to zero; the
\* decades at the two ends of the range, where the outcome depends on the
\* leading digits, are taken as finite.
ToDouble(sign, m, e) ==
    LET n == Normalize(m, e)
    IN  IF n[1] = 0 THEN Finite(0, 0)
        ELSE IF NumDigits(n[1]) + n[2] >= 310 THEN Infinity(sign)
        ELSE IF NumDigits(n[1]) + n[2] <= -324 THEN Finite(0, 0)
        ELSE Finite(sign * n[1], n[2])

\* The decimal literal [digits][.digits][(e|E)[sign]digits], at least one
\* digit before the exponent: [ok, m, e].
DecimalLiteral(t) ==
    LET ePos  == Find(t, {"e", "E"})
        mant  == IF ePos = 0 THEN t ELSE SubSeq(t, 1, ePos - 1)
        expo  == IF ePos = 0
                 THEN [ok |-> TRUE, value |-> 0]
                 ELSE SignedInteger(SubSeq(t, ePos + 1, Len(t)))
        dot   == Find(mant, {"."})
        ip    == IF dot = 0 THEN mant ELSE SubSeq(mant, 1, dot - 1)
        fp    == IF dot = 0 THEN <<>> ELSE SubSeq(mant, dot + 1, Len(mant))
        ok    == /\ expo.ok
                 /\ ip = <<>> \/ IsDigitRun(ip)
                 /\ fp = <<>> \/ IsDigitRun(fp)
                 /\ ip # <<>> \/ fp # <<>>
    IN  IF ok
        THEN [ok |-> TRUE,
              m  |-> DigitRunValue(ip \o fp, 0),
              e  |-> expo.value - CountDigits(fp)]
        ELSE [ok |-> FALSE, m |-> 0, e |-> 0]

\* float(str): surrounding whitespace is ignored; an optional sign, then
\* "inf", "infinity" or "nan" in any letter case, or a decimal literal;
\* anything else raises ValueError.
ParseFloat(raw) ==
    LET t      == Strip(raw)
        signed == t # <<>> /\ Head(t) \in {"+", "-"}
        body   == IF signed THEN Tail(t) ELSE t
        sign   == IF signed /\ Head(t) = "-" THEN -1 ELSE 1
        word   == Lower(body)
        lit    == DecimalLiteral(body)
    IN  IF word \in {<<"i", "n", "f">>,
                     <<"i", "n", "f", "i", "n", "i", "t", "y">>}
        THEN Returned(Infinity(sign))
        ELSE IF word = <<"n", "a", "n">> THEN Returned(NaN)
        ELSE IF lit.ok THEN Returned(ToDouble(sign, lit.m, lit.e))
        ELSE Raised("ValueError")

\* f <= 0; every comparison with not-a-number is false.
FloatLeqZero(f) == f.kind # "nan" /\ f.m <= 0

---------------------------------------------------------------------------
\* webhook_config.py

\* @dataclass WebhookConfig
WebhookConfig(enabled, url, timeout_sec, mode, sample_every, include_metrics) ==
    [ enabled         |-> enabled,
      url             |-> url,
      timeout_sec     |-> timeout_sec,
      mode            |-> mode,
      sample_every    |-> sample_every,
      include_metrics |-> include_metrics ]

\* WebhookConfig(): the field defaults of the dataclass
WebhookConfigDefaults ==
    WebhookConfig(FALSE, <<>>, Finite(2, 0), <<"b", "o", "t", "h">>, 1, TRUE)

VarNames ==
    { "LIVE_VLM_WEBHOOK_ENABLED", "LIVE_VLM_WEBHOOK_URL",
      "LIVE_VLM_WEBHOOK_TIMEOUT_SEC", "LIVE_VLM_WEBHOOK_MODE",
      "LIVE_VLM_WEBHOOK_SAMPLE_EVERY", "LIVE_VLM_WEBHOOK_INCLUDE_METRICS" }

\* os.getenv(name): None when the variable is not set
IsNone(e, name) == name \notin DOMAIN e

\* os.getenv(name, default)
Getenv(e, name, default) == IF IsNone(e, name) THEN default ELSE e[name]

\* ("1", "true", "yes", "on")
TRUTHY ==
    { <<"1">>, <<"t", "r", "u", "e">>, <<"y", "e", "s">>, <<"o", "n">> }

\* Mutant: an unset variable reads as false whatever the default.
EnvBoolIgnoresDefault(e, name, default) ==
    ~IsNone(e, name) /\ Lower(Strip(e[name])) \in TRUTHY

\* Mutant: the value is compared as written, neither stripped nor lowered.
EnvBoolExact(e, name, default) ==
    IF IsNone(e, name) THEN default ELSE e[name] \in TRUTHY

_env_bool(e, name, default) ==
    IF IsNone(e, name) THEN default ELSE Lower(Strip(e[name])) \in TRUTHY

\* A logger.warning(message, arg) call
Warning(message, arg) == [message |-> message, arg |-> arg]

\* Mutant: the handler is written for another exception type.
ExceptTypeError(exc) == exc = "TypeError"

\* except ValueError:
ExceptValueError(exc) == exc = "ValueError"

\* What a statement group does: it binds value (and may log), or an
\* exception leaves it.
Bound(v, warnings) == [exc |-> "none", value |-> v, warnings |-> warnings]
Escaped(exc, v) == [exc |-> exc, value |-> v, warnings |-> <<>>]

\* Mutant: an invalid timeout is replaced by 2.0 without a warning.
TimeoutSecSilent(timeout_raw) ==
    LET conv == ParseFloat(timeout_raw)
    IN  IF conv.exc = "none" /\ ~FloatLeqZero(conv.value)
        THEN Bound(conv.value, <<>>)
        ELSE Bound(Finite(2, 0), <<>>)

\* timeout_sec: try float(timeout_raw), <= 0 raises ValueError;
\* except ValueError: warn and use 2.0
TimeoutSec(timeout_raw) ==
    LET conv == ParseFloat(timeout_raw)
        exc  == IF conv.exc # "none" THEN conv.exc
                ELSE IF FloatLeqZero(conv.value) THEN "ValueError"
                ELSE "none"
    IN  IF exc = "none" THEN Bound(conv.value, <<>>)
        ELSE IF ExceptValueError(exc)
        THEN Bound(Finite(2, 0),
                   << Warning("Invalid LIVE_VLM_WEBHOOK_TIMEOUT_SEC=%s, using default 2.0",
                              timeout_raw) >>)
        ELSE Escaped(exc, Finite(2, 0))

\* Mutant: zero and negative values are accepted.
SampleEveryUnchecked(sample_raw) ==
    LET conv == ParseInt(sample_raw)
    IN  IF conv.exc = "none" THEN Bound(conv.value, <<>>)
        ELSE Bound(1,
                   << Warning("Invalid LIVE_VLM_WEBHOOK_SAMPLE_EVERY=%s, using default 1",
                              sample_raw) >>)

\* sample_every: try int(sample_raw), < 1 raises ValueError;
\* except ValueError: warn and use 1
SampleEvery(sample_raw) ==
    LET conv == ParseInt(sample_raw)
        exc  == IF conv.exc # "none" THEN conv.exc
                ELSE IF conv.value < 1 THEN "ValueError"
                ELSE "none"
    IN  IF exc = "none" THEN Bound(conv.value, <<>>)
        ELSE IF ExceptValueError(exc)
        THEN Bound(1,
                   << Warning("Invalid LIVE_VLM_WEBHOOK_SAMPLE_EVERY=%s, using default 1",
                              sample_raw) >>)
        ELSE Escaped(exc, 1)

MODES ==
    { <<"s", "i", "n", "g", "l", "e">>, <<"m", "u", "l", "t", "i">>,
      <<"b", "o", "t", "h">> }

\* Mutant: the value is stripped and defaulted but not lowercased.
ModeTextCaseSensitive(e) ==
    LET text == Strip(Getenv(e, "LIVE_VLM_WEBHOOK_MODE", <<"b", "o", "t", "h">>))
    IN  IF text = <<>> THEN <<"b", "o", "t", "h">> ELSE text

\* os.getenv("LIVE_VLM_WEBHOOK_MODE", "both").strip().lower() or "both"
ModeText(e) ==
    LET text == Lower(Strip(Getenv(e, "LIVE_VLM_WEBHOOK_MODE",
                                   <<"b", "o", "t", "h">>)))
    IN  IF text = <<>> THEN <<"b", "o", "t", "h">> ELSE text

\* if mode not in {"single", "multi", "both"}: warn and use "both"
Mode(mode) ==
    IF mode \notin MODES
    THEN Bound(<<"b", "o", "t", "h">>,
               << Warning("Invalid LIVE_VLM_WEBHOOK_MODE=%s, using default 'both'",
                          mode) >>)
    ELSE Bound(mode, <<>>)

\* Mutant: the url is not looked at.
EnabledUnchecked(enabled, url) == Bound(enabled, <<>>)

\* if enabled and not url: warn and disable
Enabled(enabled, url) ==
    IF enabled /\ url = <<>>
    THEN Bound(FALSE,
               << Warning("LIVE_VLM_WEBHOOK_ENABLED is true but LIVE_VLM_WEBHOOK_URL is empty",
                          <<>>) >>)
    ELSE Bound(enabled, <<>>)

\* The locals bound by the first six statements.
ReadLocals(e) ==
    [ enabled         |-> _env_bool(e, "LIVE_VLM_WEBHOOK_ENABLED", FALSE),
      url             |-> Strip(Getenv(e, "LIVE_VLM_WEBHOOK_URL", <<>>)),
      timeout_raw     |-> Getenv(e, "LIVE_VLM_WEBHOOK_TIMEOUT_SEC", <<"2", ".", "0">>),
      mode            |-> ModeText(e),
      sample_raw      |-> Getenv(e, "LIVE_VLM_WEBHOOK_SAMPLE_EVERY", <<"1">>),
      include_metrics |-> _env_bool(e, "LIVE_VLM_WEBHOOK_INCLUDE_METRICS", TRUE) ]

\* load_webhook_config() run from start to end with nothing else running:
\* the exception that leaves it ("none" when it returns), the WebhookConfig
\* it returns and the warnings it logs, in order.
load_webhook_config(e) ==
    LET l  == ReadLocals(e)
        ts == TimeoutSec(l.timeout_raw)
        se == SampleEvery(l.sample_raw)
        mo == Mode(l.mode)
        en == Enabled(l.enabled, l.url)
    IN  [ exc      |-> IF ts.exc # "none" THEN ts.exc ELSE se.exc,
          config   |-> WebhookConfig(en.value, l.url, ts.value, mo.value,
                                     se.value, l.include_metrics),
          warnings |-> ts.warnings \o se.warnings \o mo.warnings \o en.warnings ]

---------------------------------------------------------------------------
\* One call, statement group by statement group, by thread t

\* logging: the records of one thread's warnings are appended in order
Emit(t, warnings) ==
    log \o [i \in 1..Len(warnings) |->
              [thread |-> t, message |-> warnings[i].message, arg |-> warnings[i].arg]]

\* enabled = ...; url = ...; timeout_raw = ...; mode = ...; sample_raw = ...;
\* include_metrics = ...
ReadEnv(t) ==
    /\ pc[t] = "read"
    /\ frame' = [frame EXCEPT ![t] = ReadLocals(env)]
    /\ pc' = [pc EXCEPT ![t] = "timeout"]
    /\ UNCHANGED <<env, result, log>>

\* try: timeout_sec = float(timeout_raw) ... except ValueError: ...
ParseTimeout(t) ==
    /\ pc[t] = "timeout"
    /\ LET o == TimeoutSec(frame[t].timeout_raw)
       IN  /\ frame' = IF o.exc = "none"
                       THEN [frame EXCEPT ![t] = @ @@ ("timeout_sec" :> o.value)]
                       ELSE frame
           /\ log' = Emit(t, o.warnings)
           /\ pc' = [pc EXCEPT ![t] = IF o.exc = "none" THEN "sample" ELSE "raised"]
    /\ UNCHANGED <<env, result>>

\* try: sample_every = int(sample_raw) ... except ValueError: ...
ParseSample(t) ==
    /\ pc[t] = "sample"
    /\ LET o == SampleEvery(frame[t].sample_raw)
       IN  /\ frame' = IF o.exc = "none"
                       THEN [frame EXCEPT ![t] = @ @@ ("sample_every" :> o.value)]
                       ELSE frame
           /\ log' = Emit(t, o.warnings)
           /\ pc' = [pc EXCEPT ![t] = IF o.exc = "none" THEN "mode" ELSE "raised"]
    /\ UNCHANGED <<env, result>>

\* if mode not in {...}: ...
CheckMode(t) ==
    /\ pc[t] = "mode"
    /\ LET o == Mode(frame[t].mode)
       IN  /\ frame' = [frame EXCEPT ![t].mode = o.value]
           /\ log' = Emit(t, o.warnings)
    /\ pc' = [pc EXCEPT ![t] = "url"]
    /\ UNCHANGED <<env, result>>

\* Mutant: disabling the webhook also clears the variable in os.environ.
CheckUrlWritesEnviron(t) ==
    /\ pc[t] = "url"
    /\ LET o == Enabled(frame[t].enabled, frame[t].url)
       IN  /\ frame' = [frame EXCEPT ![t].enabled = o.value]
           /\ log' = Emit(t, o.warnings)
           /\ env' = IF o.warnings # <<>>
                     THEN [n \in DOMAIN env \ {"LIVE_VLM_WEBHOOK_ENABLED"} |-> env[n]]
                     ELSE env
    /\ pc' = [pc EXCEPT ![t] = "return"]
    /\ UNCHANGED result

\* if enabled and not url: ...
CheckUrl(t) ==
    /\ pc[t] = "url"
    /\ LET o == Enabled(frame[t].enabled, frame[t].url)
       IN  /\ frame' = [frame EXCEPT ![t].enabled = o.value]
           /\ log' = Emit(t, o.warnings)
    /\ pc' = [pc EXCEPT ![t] = "return"]
    /\ UNCHANGED <<env, result>>

\* return WebhookConfig(...)
Return(t) ==
    /\ pc[t] = "return"
    /\ result' = (t :> WebhookConfig(frame[t].enabled, frame[t].url,
                                     frame[t].timeout_sec, frame[t].mode,
                                     frame[t].sample_every,
                                     frame[t].include_metrics)) @@ result
    /\ pc' = [pc EXCEPT ![t] = "done"]
    /\ UNCHANGED <<env, frame, log>>

Call(t) ==
    \/ ReadEnv(t)
    \/ ParseTimeout(t)
    \/ ParseSample(t)
    \/ CheckMode(t)
    \/ CheckUrl(t)
    \/ Return(t)

Next == \E t \in Threads : Call(t)

---------------------------------------------------------------------------
\* The environments a call is run in

\* Texts for the two boolean variables.
BoolTexts ==
    { <<"1">>,
      <<"t", "r", "u", "e">>,
      <<"T", "R", "U", "E">>,
      <<"y", "e", "s">>,
      <<"O", "n">>,
      <<"o", "n">>,
      <<"Y", "E", "S">>,
      <<"T", "r", "u", "e">>,
      <<"0">>,
      <<"f", "a", "l", "s", "e">>,
      <<"n", "o">>,
      <<"o", "f", "f">>,
      <<>>,
      <<"2">>,
      <<"y">>,
      <<"t", "r", "u">>,
      <<"o", "n", "1">>,
      <<"\t", "t", "r", "u", "e", "\n">> }

\* Texts for LIVE_VLM_WEBHOOK_URL.
UrlTexts ==
    { <<>>,
      <<"h", "t", "t", "p", "s", ":", "/", "/", "x">>,
      <<"a", " ", "b">>,
      <<"\t", "h", "t", "t", "p", "s", ":", "/", "/", "x", "\n">> }

\* Texts for LIVE_VLM_WEBHOOK_TIMEOUT_SEC.
TimeoutTexts ==
    { <<"2", ".", "0">>,
      <<"5", ".", "5">>,
      <<"0">>,
      <<"-", "1">>,
      <<"a", "b", "c">>,
      <<"n", "a", "n">>,
      <<"N", "a", "N">>,
      <<"-", "n", "a", "n">>,
      <<"i", "n", "f">>,
      <<"-", "i", "n", "f">>,
      <<"I", "n", "f", "i", "n", "i", "t", "y">>,
      <<"1", "e", "3">>,
      <<"1", "E", "-", "2">>,
      <<"1", "e", "-", "9", "9", "9">>,
      <<"1", "e", "9", "9", "9">>,
      <<"-", "1", "e", "9", "9", "9">>,
      <<".", "5">>,
      <<"5", ".">>,
      <<>>,
      <<"0", ".", "0">>,
      <<"-", "0", ".", "0">>,
      <<"+", "3">>,
      <<"1", "_", "0">>,
      <<"1", "_", "_", "0">>,
      <<"1", "e">>,
      <<"e", "5">>,
      <<".">>,
      <<"-", "-", "1">>,
      <<"0", "x", "1", "0">>,
      <<"5", ",", "5">>,
      <<"1", ".", "5", ".", "2">>,
      <<"1", " ", "0">>,
      <<"-", " ", "1">>,
      <<"\t", "5", ".", "5", "\n">>,
      <<"i", "n">>,
      <<"1", "e", "+", "2">>,
      <<"0", "e", "9", "9", "9">> }

\* Texts for LIVE_VLM_WEBHOOK_SAMPLE_EVERY.
SampleTexts ==
    { <<"1">>,
      <<"7">>,
      <<"0">>,
      <<"-", "3">>,
      <<"x">>,
      <<>>,
      <<"7", ".", "0">>,
      <<"+", "7">>,
      <<"1", "_", "0">>,
      <<"_", "1">>,
      <<"1", "_">>,
      <<"0", "0", "7">>,
      <<"-", "0">>,
      <<"1", "e", "3">>,
      <<"1", "2">>,
      <<"0", "x", "7">>,
      <<"-", "-", "7">>,
      <<"+">>,
      <<"-">>,
      <<"7", " ", "7">>,
      <<"-", " ", "7">>,
      <<"\t", "7", "\n">> }

\* Texts for LIVE_VLM_WEBHOOK_MODE.
ModeTexts ==
    { <<"s", "i", "n", "g", "l", "e">>,
      <<"m", "u", "l", "t", "i">>,
      <<"b", "o", "t", "h">>,
      <<"S", "I", "N", "G", "L", "E">>,
      <<"M", "u", "l", "t", "i">>,
      <<"B", "o", "T", "h">>,
      <<"b", "o", "g", "u", "s">>,
      <<>>,
      <<"s", "i", "n", "g", "l">>,
      <<"s", "i", "n", "g", "l", "e", "s">>,
      <<"b", "o", " ", "t", "h">>,
      <<"b", "o", "t", "h", ",">>,
      <<"\t", "m", "u", "l", "t", "i", "\n">> }

\* Runs of 0..MaxPad spaces.
Pads == {[i \in 1..n |-> " "] : n \in 0..MaxPad}

\* The texts of S, each with every padding on either side.
Padded(S) == {l \o s \o r : l \in Pads, r \in Pads, s \in S}

\* Every text tried for one variable.
Texts(name) ==
    CASE name = "LIVE_VLM_WEBHOOK_ENABLED"         -> Padded(BoolTexts)
      [] name = "LIVE_VLM_WEBHOOK_URL"             -> Padded(UrlTexts)
      [] name = "LIVE_VLM_WEBHOOK_TIMEOUT_SEC"     -> Padded(TimeoutTexts)
      [] name = "LIVE_VLM_WEBHOOK_MODE"            -> Padded(ModeTexts)
      [] name = "LIVE_VLM_WEBHOOK_SAMPLE_EVERY"    -> Padded(SampleTexts)
      [] name = "LIVE_VLM_WEBHOOK_INCLUDE_METRICS" -> Padded(BoolTexts)

\* Environments in which every variable is unset or holds one of a few
\* texts: an enabled webhook with and without a url, the other fields
\* invalid.
BaseEnvs ==
    LET full == [ LIVE_VLM_WEBHOOK_ENABLED         : { <<"t", "r", "u", "e">> },
                  LIVE_VLM_WEBHOOK_URL             : { <<"h", "t", "t", "p", "s", ":", "/", "/", "x">>,
                                                       <<" ">> },
                  LIVE_VLM_WEBHOOK_TIMEOUT_SEC     : { <<"a", "b", "c">> },
                  LIVE_VLM_WEBHOOK_MODE            : { <<"b", "o", "g", "u", "s">> },
                  LIVE_VLM_WEBHOOK_SAMPLE_EVERY    : { <<"0">> },
                  LIVE_VLM_WEBHOOK_INCLUDE_METRICS : { <<"0">> } ]
    IN  {[n \in D |-> f[n]] : f \in full, D \in SUBSET VarNames}

\* putenv on a copy: e with name set to text
WithVar(e, name, text) ==
    [n \in DOMAIN e \cup {name} |-> IF n = name THEN text ELSE e[n]]

\* Environments of concurrent calls: nothing set, one variable set, or all.
ConcurrentEnvs == {e \in BaseEnvs : Cardinality(DOMAIN e) \in {0, 1, 6}}

\* One caller; the environment is a base environment, or one with any one
\* variable set to any of its texts.
Init ==
    /\ \/ env \in BaseEnvs
       \/ \E e \in BaseEnvs, name \in VarNames :
             \E text \in Texts(name) : env = WithVar(e, name, text)
    /\ pc = [t \in Threads |-> IF t = 1 THEN "read" ELSE "idle"]
    /\ frame = [t \in Threads |-> <<>>]
    /\ result = <<>>
    /\ log = <<>>

InitConcurrent ==
    /\ env \in ConcurrentEnvs
    /\ pc = [t \in Threads |-> "read"]
    /\ frame = [t \in Threads |-> <<>>]
    /\ result = <<>>
    /\ log = <<>>

\* One caller, every environment.
Spec == Init /\ [][Next]_vars

\* NumThreads callers at once, over one environment.
ConcurrentSpec == InitConcurrent /\ [][Next]_vars


---------------------------------------------------------------------------
\* Properties

\* The warnings thread t has logged, in order.
WarningsOf(t) == SelectSeq(log, LAMBDA r : r.thread = t)

\* The warnings of thread t that carry the given message.
WarningsWith(t, message) ==
    SelectSeq(log, LAMBDA r : r.thread = t /\ r.message = message)

TimeoutMessage == "Invalid LIVE_VLM_WEBHOOK_TIMEOUT_SEC=%s, using default 2.0"
SampleMessage == "Invalid LIVE_VLM_WEBHOOK_SAMPLE_EVERY=%s, using default 1"
ModeMessage == "Invalid LIVE_VLM_WEBHOOK_MODE=%s, using default 'both'"
UrlMessage == "LIVE_VLM_WEBHOOK_ENABLED is true but LIVE_VLM_WEBHOOK_URL is empty"

\* f > 0, for a float f: true of no not-a-number.
FloatGtZero(f) == f.kind # "nan" /\ f.m > 0

\* s holds nothing but whitespace (the empty text included).
IsBlank(s) == \A i \in 1..Len(s) : s[i] \in WHITESPACE

\* c is the lowercase letter d or its capital, or the same character.
SameLetter(c, d) ==
    c = d \/ \E k \in 1..Len(LOWERCASE) : LOWERCASE[k] = d /\ UPPERCASE[k] = c

\* v is the lowercase text lit, in any letter case, between whitespace.
IsVariantOf(v, lit) ==
    \E l \in 0..Len(v) :
        /\ l + Len(lit) <= Len(v)
        /\ \A i \in 1..Len(v) :
             IF i <= l \/ i > l + Len(lit)
             THEN v[i] \in WHITESPACE
             ELSE SameLetter(v[i], lit[i - l])

\* v is "1", "true", "yes" or "on" in any letter case, between whitespace.
IsTruthyText(v) ==
    \E lit \in { <<"1">>, <<"t", "r", "u", "e">>, <<"y", "e", "s">>, <<"o", "n">> } :
        IsVariantOf(v, lit)

\* u is v without its leading and trailing whitespace.
IsTrimOf(u, v) ==
    /\ u # <<>> => Head(u) \notin WHITESPACE /\ u[Len(u)] \notin WHITESPACE
    /\ \E l \in 0..Len(v) :
         /\ l + Len(u) <= Len(v)
         /\ \A i \in 1..Len(v) :
              IF i <= l \/ i > l + Len(u)
              THEN v[i] \in WHITESPACE
              ELSE v[i] = u[i - l]

IsText(s) == DOMAIN s = 1..Len(s) /\ \A i \in 1..Len(s) : s[i] \in STRING

IsFloat(f) ==
    /\ DOMAIN f = {"kind", "m", "e"}
    /\ f.kind \in {"finite", "inf", "nan"}
    /\ f.m \in Int
    /\ f.e \in Int

IsWebhookConfig(c) ==
    /\ DOMAIN c = {"enabled", "url", "timeout_sec", "mode", "sample_every",
                   "include_metrics"}
    /\ c.enabled \in BOOLEAN
    /\ IsText(c.url)
    /\ IsFloat(c.timeout_sec)
    /\ IsText(c.mode)
    /\ c.sample_every \in Int
    /\ c.include_metrics \in BOOLEAN

\* C1: a returned WebhookConfig that is enabled has a non-empty url; a url
\* variable holding only whitespace gives an empty url and a disabled webhook.
C1_EnabledHasUrl ==
    \A t \in DOMAIN result :
        /\ result[t].enabled => result[t].url # <<>>
        /\ ( /\ ~IsNone(env, "LIVE_VLM_WEBHOOK_URL")
             /\ IsBlank(env["LIVE_VLM_WEBHOOK_URL"]) )
           => result[t].url = <<>> /\ ~result[t].enabled

\* The webhook is enabled by the text "true", the url is whitespace only,
\* and the call has returned with the webhook disabled.
C1_Witness ==
    /\ 1 \in DOMAIN result
    /\ DOMAIN env = VarNames
    /\ env["LIVE_VLM_WEBHOOK_ENABLED"] = <<"t", "r", "u", "e">>
    /\ env["LIVE_VLM_WEBHOOK_URL"] = <<" ", " ">>
    /\ ~result[1].enabled
    /\ Len(WarningsWith(1, UrlMessage)) = 1

\* How far a call has come.
Progress(label) ==
    CASE label = "idle"    -> 0
      [] label = "read"    -> 1
      [] label = "timeout" -> 2
      [] label = "sample"  -> 3
      [] label = "mode"    -> 4
      [] label = "url"     -> 5
      [] label = "return"  -> 6
      [] label = "done"    -> 7
      [] label = "raised"  -> 7

\* The names load_webhook_config binds before it returns.
LocalNames ==
    { "enabled", "url", "timeout_raw", "mode", "sample_raw", "include_metrics",
      "timeout_sec", "sample_every" }

\* C2: the call is total: no exception leaves the function, neither of
\* the two try statements lets one escape, the return statement finds every
\* local bound and returns a WebhookConfig, and every step brings the call
\* closer to its return, so it terminates.
C2_Total ==
    /\ [](\A t \in Threads :
            /\ pc[t] # "raised"
            /\ pc[t] = "timeout" => TimeoutSec(frame[t].timeout_raw).exc = "none"
            /\ pc[t] = "sample" => SampleEvery(frame[t].sample_raw).exc = "none"
            /\ pc[t] = "return" => DOMAIN frame[t] = LocalNames
            /\ pc[t] = "done" => t \in DOMAIN result /\ IsWebhookConfig(result[t]))
    /\ [][\A t \in Threads :
            pc'[t] # pc[t] => Progress(pc'[t]) > Progress(pc[t])]_vars

\* The timeout, the sample count and the mode are all malformed, and the
\* call has returned.
C2_Witness ==
    /\ pc[1] = "done"
    /\ 1 \in DOMAIN result
    /\ DOMAIN env = VarNames
    /\ env["LIVE_VLM_WEBHOOK_TIMEOUT_SEC"] = <<"a", "b", "c">>
    /\ env["LIVE_VLM_WEBHOOK_SAMPLE_EVERY"] = <<"0">>
    /\ env["LIVE_VLM_WEBHOOK_MODE"] = <<"b", "o", "g", "u", "s">>
    /\ IsWebhookConfig(result[1])

\* C3: with none of the six variables set, the call returns exactly the
\* defaults of the dataclass and logs no warning.
C3_Defaults ==
    \A t \in DOMAIN result :
        DOMAIN env \cap VarNames = {}
        => result[t] = WebhookConfigDefaults /\ WarningsOf(t) = <<>>

\* No variable is set and the call has returned.
C3_Witness ==
    /\ DOMAIN env = {}
    /\ 1 \in DOMAIN result
    /\ pc[1] = "done"

\* The texts the specification lists as true.
ListedTrue ==
    { <<"1">>, <<"t", "r", "u", "e">>, <<"T", "R", "U", "E">>,
      <<"y", "e", "s">>, <<"O", "n">> }

\* Thread t has read the environment and not yet rebound enabled.
HasReadBooleans(t) == pc[t] \in {"timeout", "sample", "mode", "url"}

\* C4, as claimed: each listed text parses as true, and every other
\* non-empty text parses as false.
C4_Original ==
    \A t \in Threads :
        HasReadBooleans(t) =>
            /\ ~IsNone(env, "LIVE_VLM_WEBHOOK_ENABLED") =>
                 LET v == env["LIVE_VLM_WEBHOOK_ENABLED"]
                 IN  /\ v \in ListedTrue => frame[t].enabled
                     /\ v # <<>> /\ v \notin ListedTrue => ~frame[t].enabled
            /\ ~IsNone(env, "LIVE_VLM_WEBHOOK_INCLUDE_METRICS") =>
                 LET v == env["LIVE_VLM_WEBHOOK_INCLUDE_METRICS"]
                 IN  /\ v \in ListedTrue => frame[t].include_metrics
                     /\ v # <<>> /\ v \notin ListedTrue => ~frame[t].include_metrics

\* C4, amended: each listed text parses as true, and so does every text
\* that is "1", "true", "yes" or "on" once surrounding whitespace is removed
\* and letters are lowercased; every other text parses as false.
C4_BooleanParsing ==
    \A t \in Threads :
        HasReadBooleans(t) =>
            /\ ~IsNone(env, "LIVE_VLM_WEBHOOK_ENABLED") =>
                 LET v == env["LIVE_VLM_WEBHOOK_ENABLED"]
                 IN  /\ v \in ListedTrue => frame[t].enabled
                     /\ frame[t].enabled <=> IsTruthyText(v)
            /\ ~IsNone(env, "LIVE_VLM_WEBHOOK_INCLUDE_METRICS") =>
                 LET v == env["LIVE_VLM_WEBHOOK_INCLUDE_METRICS"]
                 IN  /\ v \in ListedTrue => frame[t].include_metrics
                     /\ frame[t].include_metrics <=> IsTruthyText(v)

\* "On" has been read as true and "0" as false.
C4_Witness ==
    /\ HasReadBooleans(1)
    /\ DOMAIN env = VarNames
    /\ env["LIVE_VLM_WEBHOOK_ENABLED"] = <<"O", "n">>
    /\ env["LIVE_VLM_WEBHOOK_INCLUDE_METRICS"] = <<"0">>
    /\ frame[1].enabled
    /\ ~frame[1].include_metrics

\* C5, as claimed: the returned timeout_sec is greater than 0; it is the
\* parsed value when the text parses as a float greater than 0, and 2.0 in
\* every other case, a parsed not-a-number included.
C5_TimeoutPositive ==
    \A t \in DOMAIN result :
        LET raw    == Getenv(env, "LIVE_VLM_WEBHOOK_TIMEOUT_SEC", <<"2", ".", "0">>)
            parsed == ParseFloat(raw)
        IN  /\ FloatGtZero(result[t].timeout_sec)
            /\ IF parsed.exc = "none" /\ FloatGtZero(parsed.value)
               THEN result[t].timeout_sec = parsed.value
               ELSE result[t].timeout_sec = Finite(2, 0)

\* C6: the returned sample_every is at least 1; it is the parsed integer,
\* with no warning, when the text parses as an integer of at least 1, and
\* otherwise 1 with one warning that names the raw text.
C6_SampleEvery ==
    \A t \in DOMAIN result :
        LET raw    == Getenv(env, "LIVE_VLM_WEBHOOK_SAMPLE_EVERY", <<"1">>)
            parsed == ParseInt(raw)
            w      == WarningsWith(t, SampleMessage)
        IN  /\ result[t].sample_every >= 1
            /\ IF parsed.exc = "none" /\ parsed.value >= 1
               THEN result[t].sample_every = parsed.value /\ w = <<>>
               ELSE /\ result[t].sample_every = 1
                    /\ w = << [thread |-> t, message |-> SampleMessage, arg |-> raw] >>
            /\ raw = <<"7">> => result[t].sample_every = 7
            /\ raw \in { <<"0">>, <<"-", "3">>, <<"x">> }
               => result[t].sample_every = 1 /\ Len(w) = 1

\* The sample count is "-3" and the call has returned 1 with one warning.
C6_Witness ==
    /\ 1 \in DOMAIN result
    /\ ~IsNone(env, "LIVE_VLM_WEBHOOK_SAMPLE_EVERY")
    /\ env["LIVE_VLM_WEBHOOK_SAMPLE_EVERY"] = <<"-", "3">>
    /\ result[1].sample_every = 1
    /\ Len(WarningsWith(1, SampleMessage)) = 1

\* C7: the returned mode is "single", "multi" or "both": the text trimmed
\* and lowercased when that is one of the three; "both" with no warning when
\* the variable is unset or blank; "both" with a warning otherwise.
C7_Mode ==
    \A t \in DOMAIN result :
        LET w == WarningsWith(t, ModeMessage)
        IN  /\ result[t].mode \in MODES
            /\ IF IsNone(env, "LIVE_VLM_WEBHOOK_MODE")
               THEN result[t].mode = <<"b", "o", "t", "h">> /\ w = <<>>
               ELSE LET v == env["LIVE_VLM_WEBHOOK_MODE"]
                    IN  IF IsBlank(v)
                        THEN result[t].mode = <<"b", "o", "t", "h">> /\ w = <<>>
                        ELSE IF \E lit \in MODES : IsVariantOf(v, lit)
                        THEN IsVariantOf(v, result[t].mode) /\ w = <<>>
                        ELSE result[t].mode = <<"b", "o", "t", "h">> /\ Len(w) = 1

\* The mode is "SINGLE" and the call has returned "single" without warning.
C7_Witness ==
    /\ 1 \in DOMAIN result
    /\ ~IsNone(env, "LIVE_VLM_WEBHOOK_MODE")
    /\ env["LIVE_VLM_WEBHOOK_MODE"] = <<"S", "I", "N", "G", "L", "E">>
    /\ result[1].mode = <<"s", "i", "n", "g", "l", "e">>
    /\ WarningsWith(1, ModeMessage) = <<>>

\* C8: when the enabled variable parses as true and the url variable is
\* not blank, the result is enabled and its url is the variable's text
\* without surrounding whitespace, whatever the other variables hold.
C8_EnabledWithUrl ==
    \A t \in DOMAIN result :
        ( /\ ~IsNone(env, "LIVE_VLM_WEBHOOK_ENABLED")
          /\ IsTruthyText(env["LIVE_VLM_WEBHOOK_ENABLED"])
          /\ ~IsNone(env, "LIVE_VLM_WEBHOOK_URL")
          /\ ~IsBlank(env["LIVE_VLM_WEBHOOK_URL"]) )
        => /\ result[t].enabled
           /\ result[t].url # <<>>
           /\ IsTrimOf(result[t].url, env["LIVE_VLM_WEBHOOK_URL"])

\* The webhook is enabled, the url is padded with spaces, timeout, mode and
\* sample count are all invalid, and the call has returned enabled with the
\* trimmed url.
C8_Witness ==
    /\ 1 \in DOMAIN result
    /\ DOMAIN env = VarNames
    /\ env["LIVE_VLM_WEBHOOK_ENABLED"] = <<"t", "r", "u", "e">>
    /\ env["LIVE_VLM_WEBHOOK_URL"] = <<" ", "h", "t", "t", "p", "s", ":", "/", "/", "x", " ">>
    /\ Len(WarningsOf(1)) = 3
    /\ result[1].enabled
    /\ result[1].url = <<"h", "t", "t", "p", "s", ":", "/", "/", "x">>

\* The number of warnings the result of thread t accounts for: one for each
\* of timeout, sample count and mode whose variable is set to a text that
\* was not accepted (the result is not the value the text stands for), one
\* for an enabled webhook that was disabled.
Substitutions(t) ==
    LET timeoutReplaced ==
            /\ ~IsNone(env, "LIVE_VLM_WEBHOOK_TIMEOUT_SEC")
            /\ LET p == ParseFloat(env["LIVE_VLM_WEBHOOK_TIMEOUT_SEC"])
               IN  p.exc # "none" \/ result[t].timeout_sec # p.value
        sampleReplaced ==
            /\ ~IsNone(env, "LIVE_VLM_WEBHOOK_SAMPLE_EVERY")
            /\ LET p == ParseInt(env["LIVE_VLM_WEBHOOK_SAMPLE_EVERY"])
               IN  p.exc # "none" \/ result[t].sample_every # p.value
        modeReplaced ==
            /\ ~IsNone(env, "LIVE_VLM_WEBHOOK_MODE")
            /\ ~IsBlank(env["LIVE_VLM_WEBHOOK_MODE"])
            /\ ~IsVariantOf(env["LIVE_VLM_WEBHOOK_MODE"], result[t].mode)
        disabled ==
            /\ ~IsNone(env, "LIVE_VLM_WEBHOOK_ENABLED")
            /\ IsTruthyText(env["LIVE_VLM_WEBHOOK_ENABLED"])
            /\ ~result[t].enabled
    IN  [ timeout |-> IF timeoutReplaced THEN 1 ELSE 0,
          sample  |-> IF sampleReplaced THEN 1 ELSE 0,
          mode    |-> IF modeReplaced THEN 1 ELSE 0,
          url     |-> IF disabled THEN 1 ELSE 0 ]

\* C9: the warnings of a call are exactly its substitutions: one warning
\* for each of timeout, sample count and mode that was replaced by its
\* default, one for an enabled webhook disabled for want of a url, and no
\* other warning.
C9_WarningsMatchSubstitutions ==
    \A t \in DOMAIN result :
        LET s == Substitutions(t)
        IN  /\ Len(WarningsWith(t, TimeoutMessage)) = s.timeout
            /\ Len(WarningsWith(t, SampleMessage)) = s.sample
            /\ Len(WarningsWith(t, ModeMessage)) = s.mode
            /\ Len(WarningsWith(t, UrlMessage)) = s.url
            /\ Len(WarningsOf(t)) = s.timeout + s.sample + s.mode + s.url

\* All four substitutions were made in one call and four warnings logged.
C9_Witness ==
    /\ 1 \in DOMAIN result
    /\ Substitutions(1) = [timeout |-> 1, sample |-> 1, mode |-> 1, url |-> 1]
    /\ Len(WarningsOf(1)) = 4

\* The returned configuration and the warnings of thread t are those of a
\* call run alone in the same environment.
AsRunAlone(t) ==
    LET alone == load_webhook_config(env)
        mine  == WarningsOf(t)
    IN  /\ result[t] = alone.config
        /\ [i \in 1..Len(mine) |-> Warning(mine[i].message, mine[i].arg)]
             = alone.warnings

\* C10: concurrent calls never write the environment, and each returns
\* what a call run alone would return, in every interleaving.
C10_ConcurrentCalls ==
    /\ [][env' = env]_vars
    /\ [](\A t \in DOMAIN result : AsRunAlone(t))

\* Two calls have returned and their warnings are interleaved in the log.
C10_Witness ==
    /\ {1, 2} \subseteq DOMAIN result
    /\ \E i, j, k \in 1..Len(log) :
         /\ i < j
         /\ j < k
         /\ log[i].thread = 1
         /\ log[j].thread = 2
         /\ log[k].thread = 1

=============================================================================
